---- MODULE Spec2Model ----
(***************************************************************************)
(* A model of src/src/forms.js: the form binder (init, getFormElement,     *)
(* setup), the submission lifecycle (submit) and the default hooks         *)
(* (enable, disable, renderErrors, onSuccess, ...).                        *)
(*                                                                         *)
(* JavaScript runs one task at a time.  An invocation of the async         *)
(* function submit therefore runs in two atomic segments: from its start   *)
(* to the await of client.submitForm, and from the settlement of that      *)
(* promise to its end.  Invocations of submit on the same form may         *)
(* overlap between the two segments.                                       *)
(***************************************************************************)
EXTENDS Integers, Sequences, FiniteSets, TLC

\* ------------------------------------------------------------- bounds
MaxInv == 2      \* invocations of submit in one behaviour
MaxInit == 2     \* calls of init in one behaviour
MaxErrors == 1   \* length of the errors list of a response body
MaxList == 2     \* length of the errors list of a direct call of renderErrors

\* ------------------------------------------------------------- values
None == "none"

\* The eight keys of `defaults` that hold functions.
HookNames ==
  {"onInit", "onSubmit", "onSuccess", "onError", "onFailure",
   "enable", "disable", "renderErrors"}

Callbacks == {"onInit", "onSubmit", "onSuccess", "onError", "onFailure"}

\* The sets of hooks a caller of init overrides: none, the callbacks (with
\* the default enable, disable and renderErrors), or all.  An override may
\* throw when called, or return.
CustomSets == {{}, Callbacks, HookNames}

\* The document: one form (form1) and one element that is no form (div1).
Elements == {"form1", "div1"}
IsForm(el) == el = "form1"

\* Controls of the document: a submit button and a text input within form1
\* and a submit button outside of it.
Controls == {"submit", "text", "outer"}
IsSubmitType(c) == c \in {"submit", "outer"}
Within(c, el) == el = "form1" /\ c \in {"submit", "text"}

\* The [data-sk-error] elements within form1, by their data-sk-error value.
Slots == {"email", "name"}
SlotsWithin(el) == IF el = "form1" THEN Slots ELSE {}

\* Rendered content: <<>> is '', <<m>> is the text m, and <<p, m>> is the
\* template `${p} ${m}`.
Empty == <<>>

\* Field errors a response body may carry (field, code, message); codes are
\* sequences of characters.
FieldErrors ==
  { [field |-> "email", code |-> <<"T", "_", "E">>, message |-> "is invalid"],
    [field |-> "email", code |-> <<>>, message |-> "is required"],
    [field |-> "name", code |-> <<>>, message |-> "is required"] }

RECURSIVE SeqsUpTo(_, _)
SeqsUpTo(S, n) ==
  IF n = 0 THEN {<<>>}
  ELSE LET shorter == SeqsUpTo(S, n - 1)
       IN shorter \cup {Append(s, x) : s \in {t \in shorter : Len(t) = n - 1}, x \in S}

ErrorLists == SeqsUpTo(FieldErrors, MaxErrors)

\* The `fields` option: per field a prettyName ("" when not configured) and
\* errorMessages keyed by the lower-cased, camel-cased code.
NoFields == [f \in {} |-> [prettyName |-> "", errorMessages |-> [k \in {} |-> ""]]]
EmailFields ==
  [f \in {"email"} |->
     [prettyName |-> "Email",
      errorMessages |-> [k \in {<<"t", "E">>} |-> "Enter a valid address"]]]
FieldsCfgs == {EmailFields}

\* A `fields` option whose entry for email has no prettyName and the empty
\* string as the message of the code.
BlankFields ==
  [f \in {"email"} |->
     [prettyName |-> "",
      errorMessages |-> [k \in {<<"t", "E">>} |-> ""]]]

\* The `data` option: {} (the default) or one computed property (a function,
\* which may throw when called, or return).
DataKinds == {"none", "fn"}

\* The `id` option ("" when missing) and the `element` option ("" when
\* missing, a reference to form1 or to div1, or a selector string).
Ids == {"", "f1"}
ElementOpts == {"", "formRef", "divRef", "#form1", "#div1", "#nothing"}

\* The options a page passes to init besides id and element.
OptionsSet ==
  [custom : {{}}, data : {"none"}, fields : FieldsCfgs]
  \cup [custom : CustomSets \ {{}}, data : {"fn"}, fields : FieldsCfgs]

\* The props of a call of init.
Props(id, element, opts) ==
  [id |-> id, element |-> element, custom |-> opts.custom,
   data |-> opts.data, fields |-> opts.fields]

\* What client.submitForm settles with: a result {response: {status}, body}
\* (errors is body.errors, hasErrors whether body.errors is defined) or a
\* rejection with an error value.
Results ==
  [kind : {"resolve"}, status : {200}, hasErrors : {FALSE}, errors : {<<>>}, e : {None}]
  \cup [kind : {"resolve"}, status : {422}, hasErrors : {TRUE}, errors : ErrorLists, e : {None}]
  \cup [kind : {"resolve"}, status : {422}, hasErrors : {FALSE}, errors : {<<>>}, e : {None}]
  \cup [kind : {"reject"}, status : {0}, hasErrors : {FALSE}, errors : {<<>>}, e : {"NetworkError"}]

\* dom:        the document (disabled flags, slot contents, whether form1 is
\*             in the document, the number of 'Thank you!' elements)
\* options:    the hooks, data and fields the page passes to init (the same
\*             in each of its calls)
\* listeners:  the configurations of the submit listeners attached, in order
\* pending:    the invocations of submit suspended at client.submitForm, in
\*             order of their start
\* exited:     the invocations of submit that ended in the last step
\* lastInit:   the call of init made in the last step (NoInit when the last
\*             step was no call of init): arguments, calls made, exit
\* nInit:      the number of calls of init
\* started:    the number of invocations of submit
\* dispatched: the number of submit events dispatched
\* prevented:  the number of calls of ev.preventDefault()
\* lastCall:   the last call of a default hook made on its own (not by init
\*             or submit): the hook, the form of its configuration, its
\*             error list, and the call before it
VARIABLES dom, options, listeners, pending, exited, lastInit, nInit, started,
          dispatched, prevented, lastCall

vars ==
  <<dom, options, listeners, pending, exited, lastInit, nInit, started,
    dispatched, prevented, lastCall>>

\* ------------------------------------------------------------- traces
\* One call made by the code: the function called (op), whether the function
\* that ran is the module's default or the caller's override (impl), the
\* identity of the argument object (ref), for an error list its value (errs),
\* and whether the call threw.
Ev(op, impl, ref, errs, threw) ==
  [op |-> op, impl |-> impl, ref |-> ref, errs |-> errs, threw |-> threw]

\* An execution in progress: the document, the calls made so far, and the
\* exception in flight (None when there is none).
Log(s, e) == [s EXCEPT !.trace = Append(@, e)]
Throw(s, x) == [s EXCEPT !.exc = x]
Ok(d) == [dom |-> d, exc |-> None]

\* An argument that may be undefined (body.errors of a body without errors).
Defined(list) == [defined |-> TRUE, list |-> list]
UndefinedArg == [defined |-> FALSE, list |-> <<>>]

\* ------------------------------------------------------------- utils
LowerChar(c) == CASE c = "T" -> "t" [] c = "E" -> "e" [] OTHER -> c
UpperChar(c) == CASE c = "t" -> "T" [] c = "e" -> "E" [] OTHER -> c
IsLetter(c) == c \in {"t", "e", "T", "E"}

toLowerCase(s) == [i \in 1..Len(s) |-> LowerChar(s[i])]

\* s.replace(/([-_][a-z])/gi, ...): each separator followed by a letter is
\* replaced by the upper-cased letter.
RECURSIVE toCamel(_)
toCamel(s) ==
  IF Len(s) = 0 THEN <<>>
  ELSE IF Len(s) >= 2 /\ s[1] \in {"-", "_"} /\ IsLetter(s[2])
       THEN <<UpperChar(s[2])>> \o toCamel(SubSeq(s, 3, Len(s)))
       ELSE <<s[1]>> \o toCamel(Tail(s))

\* ------------------------------------------------------------- default hooks
\* A success callback that leaves the form in place.
onSuccess_keepsForm(config, d) ==
  IF d.attached THEN Ok(d) ELSE [dom |-> d, exc |-> "TypeError"]

\* The default success callback: form.parentNode.replaceChild(replacement, form).
\* form.parentNode is null for a form that is not in the document.
onSuccess(config, d) ==
  IF d.attached
  THEN Ok([d EXCEPT !.attached = FALSE, !.thanks = @ + 1])
  ELSE [dom |-> d, exc |-> "TypeError"]

\* An enable hook that looks for submit controls in the whole document.
enable_wholeDocument(config, d) ==
  Ok([d EXCEPT !.disabled =
        [c \in Controls |-> IF IsSubmitType(c) THEN FALSE ELSE d.disabled[c]]])

\* The default enable hook.
enable(config, d) ==
  Ok([d EXCEPT !.disabled =
        [c \in Controls |->
           IF IsSubmitType(c) /\ Within(c, config.form) /\ d.disabled[c]
           THEN FALSE ELSE d.disabled[c]]])

\* A disable hook that leaves the controls as they are.
disable_noop(config, d) == Ok(d)

\* The default disable hook.
disable(config, d) ==
  Ok([d EXCEPT !.disabled =
        [c \in Controls |->
           IF IsSubmitType(c) /\ Within(c, config.form) /\ ~d.disabled[c]
           THEN TRUE ELSE d.disabled[c]]])

\* A lookup that returns the last error of the list with that field.
errorFor_last(errors, field) ==
  LET hits == {i \in 1..Len(errors) : errors[i].field = field}
  IN IF hits = {} THEN 0 ELSE CHOOSE i \in hits : \A j \in hits : i >= j

\* errors.find(error => error.field == field): the index of the first error
\* of the list with that field, 0 when there is none.
errorFor(errors, field) ==
  LET hits == {i \in 1..Len(errors) : errors[i].field = field}
  IN IF hits = {} THEN 0 ELSE CHOOSE i \in hits : \A j \in hits : i <= j

\* The message rendered for an error (lines 76-80).
fullMessage(config, error) ==
  LET configured == error.field \in DOMAIN config.fields
      prettyName == IF configured THEN config.fields[error.field].prettyName ELSE ""
      errorMessages ==
        IF configured THEN config.fields[error.field].errorMessages
        ELSE [k \in {} |-> ""]
      prefix == IF prettyName # "" THEN prettyName ELSE "This field"
      code == toCamel(toLowerCase(error.code))
  IN IF code \in DOMAIN errorMessages /\ errorMessages[code] # ""
     THEN <<errorMessages[code]>>
     ELSE <<prefix, error.message>>

\* A renderer that leaves a slot without error as it is.
renderErrors_keepsStale(config, errors, d) ==
  Ok([d EXCEPT !.slots =
        [f \in Slots |->
           IF f \notin SlotsWithin(config.form) \/ errorFor(errors.list, f) = 0
           THEN d.slots[f]
           ELSE fullMessage(config, errors.list[errorFor(errors.list, f)])]])

\* The default error rendering hook.  With errors undefined, errors.find
\* throws at the first slot, before any slot is written.
renderErrors(config, errors, d) ==
  LET elements == SlotsWithin(config.form)
  IN IF ~errors.defined
     THEN [dom |-> d, exc |-> IF elements = {} THEN None ELSE "TypeError"]
     ELSE Ok([d EXCEPT !.slots =
                [f \in Slots |->
                   IF f \notin elements THEN d.slots[f]
                   ELSE IF errorFor(errors.list, f) = 0 THEN Empty
                   ELSE fullMessage(config, errors.list[errorFor(errors.list, f)])]])

\* A call of a hook: the override of the caller (which leaves the document
\* alone and may throw, thr being the overrides that throw when called) or
\* the module's default (whose effect on the document is eff).
Returned(s, d, exc) == [s EXCEPT !.dom = d, !.exc = exc]

Call(s, name, impl, ref, errs, thr, eff) ==
  IF impl = "custom"
  THEN Returned(Log(s, Ev(name, impl, ref, errs, name \in thr)), s.dom,
                IF name \in thr THEN "HookError" ELSE None)
  ELSE Returned(Log(s, Ev(name, impl, ref, errs, eff.exc # None)), eff.dom, eff.exc)

\* Sequencing: the statement F runs unless an exception is in flight.
AndThen(s, F(_)) == IF s.exc # None THEN s ELSE F(s)

\* ------------------------------------------------------------- submit
\* Lines 103-114: new FormData(form) throws for an element that is no form;
\* a computed property of `data` is called with the configuration.
collectData(config, s, thr) ==
  IF ~IsForm(config.form) THEN Throw(s, "TypeError")
  ELSE IF config.data = "fn"
       THEN Call(s, "data", "custom", "config", <<>>, thr, Ok(s.dom))
       ELSE s

\* submit without line 117.
clearErrors_skipped(config, s, thr) == s

\* Line 117: renderErrors(config, []).
clearErrors(config, s, thr) ==
  Call(s, "renderErrors", config.hooks["renderErrors"], "[]", <<>>, thr,
       renderErrors(config, Defined(<<>>), s.dom))

\* Line 118: disable(config).
callDisable(config, s, thr) ==
  Call(s, "disable", config.hooks["disable"], "config", <<>>, thr,
       disable(config, s.dom))

\* Line 119: onSubmit(config); the default does nothing.
callOnSubmit(config, s, thr) ==
  Call(s, "onSubmit", config.hooks["onSubmit"], "config", <<>>, thr, Ok(s.dom))

\* Lines 124-128: client.submitForm({id, endpoint, data}) is called.
callSubmitForm(config, s) ==
  Log(s, Ev("submitForm", "client", config.id, <<>>, FALSE))

\* submit with disable(config) moved after the call of client.submitForm.
submitStart_disableLate(config, s, thr) ==
  AndThen(
    AndThen(
      AndThen(
        AndThen(collectData(config, s, thr),
                LAMBDA s1 : clearErrors(config, s1, thr)),
        LAMBDA s2 : callOnSubmit(config, s2, thr)),
      LAMBDA s3 : callSubmitForm(config, s3)),
    LAMBDA s4 : callDisable(config, s4, thr))

\* submit with onSubmit(config) called before renderErrors(config, []).
submitStart_onSubmitFirst(config, s, thr) ==
  AndThen(
    AndThen(
      AndThen(
        AndThen(collectData(config, s, thr),
                LAMBDA s1 : callOnSubmit(config, s1, thr)),
        LAMBDA s2 : clearErrors(config, s2, thr)),
      LAMBDA s3 : callDisable(config, s3, thr)),
    LAMBDA s4 : callSubmitForm(config, s4))

\* Lines 89-128: submit from its start to the await of client.submitForm.
submitStart(config, s, thr) ==
  AndThen(
    AndThen(
      AndThen(
        AndThen(collectData(config, s, thr),
                LAMBDA s1 : clearErrors(config, s1, thr)),
        LAMBDA s2 : callDisable(config, s2, thr)),
      LAMBDA s3 : callOnSubmit(config, s3, thr)),
    LAMBDA s4 : callSubmitForm(config, s4))

\* Line 132: onSuccess(config, result.body).
callOnSuccess(config, s, thr) ==
  Call(s, "onSuccess", config.hooks["onSuccess"], "body", <<>>, thr,
       onSuccess(config, s.dom))

\* Lines 136-137 with the two calls in the other order.
renderAndOnError_swapped(config, s, errors, thr) ==
  AndThen(
    Call(s, "onError", config.hooks["onError"], "body.errors",
         errors.list, thr, Ok(s.dom)),
    LAMBDA r : Call(r, "renderErrors", config.hooks["renderErrors"], "body.errors",
                    errors.list, thr, renderErrors(config, errors, r.dom)))

\* Lines 134-137: errors = result.body.errors; renderErrors(config, errors);
\* onError(config, errors).  The default onError does nothing.
renderAndOnError(config, s, errors, thr) ==
  AndThen(
    Call(s, "renderErrors", config.hooks["renderErrors"], "body.errors",
         errors.list, thr, renderErrors(config, errors, s.dom)),
    LAMBDA r : Call(r, "onError", config.hooks["onError"], "body.errors",
                    errors.list, thr, Ok(r.dom)))

\* A try block that calls client.submitForm again after a rejection.
tryBlock_retry(config, s, result, thr) ==
  IF result.kind = "reject" THEN Throw(callSubmitForm(config, s), result.e)
  ELSE IF result.status = 200 THEN callOnSuccess(config, s, thr)
  ELSE renderAndOnError(config, s,
                        IF result.hasErrors THEN Defined(result.errors)
                        ELSE UndefinedArg, thr)

\* The try block with the test of line 130 inverted.
tryBlock_inverted(config, s, result, thr) ==
  IF result.kind = "reject" THEN Throw(s, result.e)
  ELSE IF result.status # 200 THEN callOnSuccess(config, s, thr)
  ELSE renderAndOnError(config, s,
                        IF result.hasErrors THEN Defined(result.errors)
                        ELSE UndefinedArg, thr)

\* Lines 124-138: the try block after the await.
tryBlock(config, s, result, thr) ==
  IF result.kind = "reject" THEN Throw(s, result.e)
  ELSE IF result.status = 200 THEN callOnSuccess(config, s, thr)
  ELSE renderAndOnError(config, s,
                        IF result.hasErrors THEN Defined(result.errors)
                        ELSE UndefinedArg, thr)

\* The function the name onFailure denotes in submit: submit does not take
\* onFailure from config (lines 90-101), so it is the module's (line 32),
\* which does nothing.
onFailureCallee(config) == "default"

\* A catch block that throws the exception again after onFailure.
catchBlock_rethrows(config, t, thr) ==
  IF t.exc = None THEN t
  ELSE Throw(Call([t EXCEPT !.exc = None], "onFailure", onFailureCallee(config),
                  t.exc, <<>>, thr, Ok(t.dom)),
             t.exc)

\* A catch block that also renders, with an empty list, before onFailure.
catchBlock_rendering(config, t, thr) ==
  IF t.exc = None THEN t
  ELSE Call(Call([t EXCEPT !.exc = None], "renderErrors",
                 config.hooks["renderErrors"], "[]", <<>>, {},
                 renderErrors(config, Defined(<<>>), t.dom)),
            "onFailure", onFailureCallee(config), t.exc, <<>>, thr, Ok(t.dom))

\* Lines 139-141: the catch block, entered with the exception t.exc.
catchBlock(config, t, thr) ==
  IF t.exc = None THEN t
  ELSE Call([t EXCEPT !.exc = None], "onFailure", onFailureCallee(config), t.exc,
            <<>>, thr, Ok(t.dom))

\* The exit of a finally block that was entered with the exception exc in
\* flight and ended in f: an exception of the block replaces the one in flight.
Rethrow(f, exc) == IF f.exc # None THEN f ELSE [f EXCEPT !.exc = exc]

\* enable(config) at the end of the try block instead of in a finally block:
\* it does not run when the catch block ran.
finallyBlock_tryOnly(config, c, thr) ==
  IF c.trace[Len(c.trace)].op = "onFailure" THEN c
  ELSE Rethrow(Call([c EXCEPT !.exc = None], "enable", config.hooks["enable"],
                    "config", <<>>, thr, enable(config, c.dom)),
               c.exc)

\* Lines 142-144: the finally block.
finallyBlock(config, c, thr) ==
  Rethrow(Call([c EXCEPT !.exc = None], "enable", config.hooks["enable"], "config",
               <<>>, thr, enable(config, c.dom)),
          c.exc)

\* Lines 123-145: submit from the settlement of client.submitForm to its end.
submitSettle(config, s, result, thr) ==
  finallyBlock(config, catchBlock(config, tryBlock(config, s, result, thr), thr), thr)

\* ------------------------------------------------------------- binding
\* Lines 150-163 and 204: Object.assign({}, defaults, props, { form }).
defaults(props, form) ==
  [id |-> props.id, form |-> form,
   hooks |-> [h \in HookNames |-> IF h \in props.custom THEN "custom" ELSE "default"],
   data |-> props.data, fields |-> props.fields]

\* Lines 189-195.  A reference to an element that is no form is handed to
\* document.querySelector, which throws for it; a selector resolves to the
\* element when it is in the document and to null otherwise.
getFormElement(nodeOrSelector, d) ==
  CASE nodeOrSelector = "formRef" -> [exc |-> None, el |-> "form1"]
    [] nodeOrSelector = "divRef" -> [exc |-> "SyntaxError", el |-> "null"]
    [] nodeOrSelector = "#form1" ->
         [exc |-> None, el |-> IF d.attached THEN "form1" ELSE "null"]
    [] nodeOrSelector = "#div1" -> [exc |-> None, el |-> "div1"]
    [] OTHER -> [exc |-> None, el |-> "null"]

\* Lines 173-177: form.addEventListener('submit', ...).
addEventListener(config, s) ==
  Log([s EXCEPT !.listeners = Append(@, config)],
      Ev("addEventListener", "dom", config.form, <<>>, FALSE))

\* setup with the init hook called before the enable hook.
setup_initFirst(config, s, thr) ==
  AndThen(
    AndThen(
      AndThen(addEventListener(config, s),
              LAMBDA s1 : Call(s1, "onInit", config.hooks["onInit"], "config", <<>>,
                               thr, Ok(s1.dom))),
      LAMBDA s2 : Call(s2, "enable", config.hooks["enable"], "config", <<>>, thr,
                       enable(config, s2.dom))),
    LAMBDA s3 : [s3 EXCEPT !.ret = TRUE])

\* Lines 168-182.
setup(config, s, thr) ==
  AndThen(
    AndThen(
      AndThen(addEventListener(config, s),
              LAMBDA s1 : Call(s1, "enable", config.hooks["enable"], "config", <<>>,
                               thr, enable(config, s1.dom))),
      LAMBDA s2 : Call(s2, "onInit", config.hooks["onInit"], "config", <<>>, thr,
                       Ok(s2.dom))),
    LAMBDA s3 : [s3 EXCEPT !.ret = TRUE])

\* Lines 202-205, form being what getFormElement returned or threw.
bind(props, form, s, thr) ==
  IF form.exc # None THEN Throw(s, form.exc)
  ELSE IF form.el = "null" THEN Throw(s, "Error: not found")
  ELSE setup(defaults(props, form.el), s, thr)

\* init without the check of line 198.
init_noIdCheck(props, s, thr) ==
  IF props.element = "" THEN Throw(s, "Error: element")
  ELSE bind(props, getFormElement(props.element, s.dom), s, thr)

\* Lines 197-206.
init(props, s, thr) ==
  IF props.id = "" THEN Throw(s, "Error: id")
  ELSE IF props.element = "" THEN Throw(s, "Error: element")
  ELSE bind(props, getFormElement(props.element, s.dom), s, thr)

\* ------------------------------------------------------------- state machine
NoResult == [kind |-> "none", status |-> 0, hasErrors |-> FALSE, errors |-> <<>>, e |-> None]

NoInit ==
  [called |-> FALSE, id |-> "", element |-> "", trace |-> <<>>, exc |-> None,
   ret |-> FALSE, before |-> 0]

NoCall == [op |-> "none", form |-> "", errors |-> <<>>, prev |-> <<>>]

\* The page loads with form1 in the document, its controls disabled (until
\* init enables the submit button), the button outside of it enabled, and
\* its error slots empty.
Init ==
  /\ dom = [disabled |-> [c \in Controls |-> Within(c, "form1")],
            slots |-> [f \in Slots |-> Empty], attached |-> TRUE, thanks |-> 0]
  /\ options \in OptionsSet
  /\ listeners = <<>>
  /\ pending = <<>>
  /\ exited = <<>>
  /\ lastInit = NoInit
  /\ nInit = 0
  /\ started = 0
  /\ dispatched = 0
  /\ prevented = 0
  /\ lastCall = NoCall

\* The overrides among `names` that config holds (and its computed data
\* property): the functions of the caller that may throw.
Throwers(config, names) ==
  {h \in names : IF h = "data" THEN config.data = "fn" ELSE config.hooks[h] = "custom"}

\* The state after a call of init that ended in r.
Bound(id, element, r) ==
  /\ dom' = r.dom
  /\ listeners' = r.listeners
  /\ lastInit' = [called |-> TRUE, id |-> id, element |-> element,
                  trace |-> r.trace, exc |-> r.exc, ret |-> r.ret,
                  before |-> Len(listeners)]

\* A call of init by the page.
InitCall ==
  /\ nInit < MaxInit
  /\ \E id \in Ids, element \in ElementOpts :
       \E thr \in SUBSET (options.custom \cap {"enable", "onInit"}) :
         Bound(id, element,
               init(Props(id, element, options),
                    [dom |-> dom, trace |-> <<>>, exc |-> None,
                     listeners |-> listeners, ret |-> FALSE], thr))
  /\ nInit' = nInit + 1
  /\ exited' = <<>>
  /\ UNCHANGED <<options, pending, started, dispatched, prevented, lastCall>>

\* Lines 173-177: one listener runs for a submit event: submit runs to its
\* await (or to an exception of its first lines, which rejects its promise).
\* The record keeps the slot contents at the start (start), the document
\* when the second segment began (pre) and at the end of the invocation (end),
\* and whether another invocation was in progress during this one.
Started(config, d, r) ==
  [config |-> config,
   pc |-> IF r.exc = None THEN "awaiting" ELSE "done",
   trace |-> r.trace, exc |-> r.exc, result |-> NoResult,
   start |-> d.slots, pre |-> r.dom, end |-> r.dom, overlapped |-> FALSE]

Invocation(config, d, thr) ==
  Started(config, d, submitStart(config, [dom |-> d, trace |-> <<>>, exc |-> None], thr))

\* The listeners ls[k], ls[k+1], ... run one after the other for an event,
\* invs being the invocations of the listeners before them.
RECURSIVE RunListeners(_, _, _, _, _)
RunNext(ls, thrs, k, invs, i) == RunListeners(ls, i.end, thrs, k + 1, Append(invs, i))

RunListeners(ls, d, thrs, k, invs) ==
  IF k > Len(ls) THEN [dom |-> d, invs |-> invs]
  ELSE RunNext(ls, thrs, k, invs, Invocation(ls[k], d, thrs[k]))

OnElement(el) == SelectSeq(listeners, LAMBDA c : c.form = el)
Awaiting(invs) == SelectSeq(invs, LAMBDA i : i.pc = "awaiting")
Done(invs) == SelectSeq(invs, LAMBDA i : i.pc = "done")

\* The functions submit calls before the await, and those it calls after it
\* for a result.  The first of them that throws ends the segment or the try
\* block, so at most one of them (and enable, in the finally block) throws.
StartThrowers == {"data", "renderErrors", "disable", "onSubmit"}
TryThrowers(result) ==
  IF result.kind = "reject" THEN {}
  ELSE IF result.status = 200 THEN {"onSuccess"}
  ELSE {"renderErrors", "onError"}

AtMostOne(S) == {t \in SUBSET S : Cardinality(t) <= 1}

Mark(invs, b) == [k \in 1..Len(invs) |-> [invs[k] EXCEPT !.overlapped = @ \/ b]]

\* The state after the listeners ls ran for an event, ending in r.
Dispatched(ls, r) ==
  /\ dom' = r.dom
  /\ pending' = Mark(pending \o Awaiting(r.invs), Len(pending) + Len(r.invs) > 1)
  /\ exited' = Mark(Done(r.invs), Len(pending) + Len(r.invs) > 1)
  /\ started' = started + Len(ls)
  /\ dispatched' = dispatched + 1
  /\ prevented' = prevented + Len(ls)
  /\ lastInit' = NoInit
  /\ UNCHANGED <<options, listeners, nInit, lastCall>>

\* A submit event is dispatched on an element that has listeners.
SubmitEvent ==
  \E el \in Elements :
    /\ Len(OnElement(el)) > 0
    /\ started + Len(OnElement(el)) <= MaxInv
    /\ \E thrs \in [1..Len(OnElement(el)) -> AtMostOne(StartThrowers)] :
         /\ \A k \in 1..Len(OnElement(el)) :
              thrs[k] \subseteq Throwers(OnElement(el)[k], StartThrowers)
         /\ Dispatched(OnElement(el), RunListeners(OnElement(el), dom, thrs, 1, <<>>))

Without(s, i) == SubSeq(s, 1, i - 1) \o SubSeq(s, i + 1, Len(s))

\* The state after the pending invocation i got `result` and ended in r.
Settled(i, result, r) ==
  /\ dom' = r.dom
  /\ exited' = << [pending[i] EXCEPT !.pc = "done", !.trace = r.trace,
                                     !.exc = r.exc, !.result = result,
                                     !.pre = dom, !.end = r.dom] >>
  /\ pending' = Without(pending, i)
  /\ lastInit' = NoInit
  /\ UNCHANGED <<options, listeners, nInit, started, dispatched, prevented,
                 lastCall>>

\* client.submitForm settles for the pending invocation i with `result`, and
\* submit runs to its end.
Settle(i, result) ==
  \E t1 \in AtMostOne(Throwers(pending[i].config, TryThrowers(result))),
     t2 \in SUBSET Throwers(pending[i].config, {"enable"}) :
    Settled(i, result,
            submitSettle(pending[i].config,
                         [dom |-> dom, trace |-> pending[i].trace, exc |-> None],
                         result, t1 \cup t2))

\* The promise of client.submitForm resolves with a response.
Resolve ==
  \E i \in 1..Len(pending) : \E result \in {r \in Results : r.kind = "resolve"} :
    Settle(i, result)

\* The promise of client.submitForm rejects.
Reject ==
  \E i \in 1..Len(pending) : \E result \in {r \in Results : r.kind = "reject"} :
    Settle(i, result)

Next == InitCall \/ SubmitEvent \/ Resolve \/ Reject

Spec == Init /\ [][Next]_vars

\* ------------------------------------------------------------- the hooks alone
\* The default hooks are functions of a configuration and the document.  The
\* two specifications below call them on their own, from every document of a
\* bounded set: renderErrors with every error list up to MaxList errors, and
\* enable and disable with the configuration of every element.
RenderLists == SeqsUpTo(FieldErrors, MaxList)

\* Slot contents before the first call: empty, or a text left by an earlier
\* rendering.
PriorSlots == [Slots -> {Empty, <<"stale">>}]

HookOptions == [custom : {{}}, data : {"none"}, fields : {EmailFields, BlankFields}]

\* The configuration the hooks are called with: Object.assign({}, defaults,
\* props, { form }) of line 204.
HookConfig(form) == defaults(Props("f1", "formRef", options), form)

Idle ==
  /\ listeners = <<>>
  /\ pending = <<>>
  /\ exited = <<>>
  /\ lastInit = NoInit
  /\ nInit = 0
  /\ started = 0
  /\ dispatched = 0
  /\ prevented = 0
  /\ lastCall = NoCall

CallOf(op, form, errors) == [op |-> op, form |-> form, errors |-> errors]

\* The state after a call of a hook that ended in r.
Called(op, form, errors, r) ==
  /\ dom' = r.dom
  /\ lastCall' = [op |-> op, form |-> form, errors |-> errors,
                  prev |-> IF lastCall.op = "none" THEN <<>>
                           ELSE <<CallOf(lastCall.op, lastCall.form, lastCall.errors)>>]
  /\ UNCHANGED <<options, listeners, pending, exited, lastInit, nInit, started,
                 dispatched, prevented>>

RenderInit ==
  /\ dom \in [disabled : {[c \in Controls |-> Within(c, "form1")]},
               slots : PriorSlots, attached : {TRUE}, thanks : {0}]
  /\ options \in HookOptions
  /\ Idle

\* renderErrors(config, errors) with the configuration of form1.
RenderCall ==
  \E errors \in RenderLists :
    Called("renderErrors", "form1", errors,
           renderErrors(HookConfig("form1"), Defined(errors), dom))

RenderNext == RenderCall

RenderSpec == RenderInit /\ [][RenderNext]_vars

ToggleInit ==
  /\ dom \in [disabled : [Controls -> BOOLEAN],
               slots : {[f \in Slots |-> Empty]}, attached : {TRUE}, thanks : {0}]
  /\ options \in HookOptions
  /\ Idle

\* enable(config) with the configuration of an element.
EnableCall ==
  \E form \in Elements :
    Called("enable", form, <<>>, enable(HookConfig(form), dom))

\* disable(config) with the configuration of an element.
DisableCall ==
  \E form \in Elements :
    Called("disable", form, <<>>, disable(HookConfig(form), dom))

ToggleNext == EnableCall \/ DisableCall

ToggleSpec == ToggleInit /\ [][ToggleNext]_vars

\* ------------------------------------------------------------- properties
\* The positions of the calls of op in a trace.
Pos(tr, op) == {k \in 1..Len(tr) : tr[k].op = op}

\* The invocations of submit that ended in the last step, and those of them
\* that had reached the network call.
Exits == {exited[k] : k \in 1..Len(exited)}
ReachedExits == {i \in Exits : Pos(i.trace, "submitForm") # {}}

\* The position of the call of client.submitForm in the trace of an
\* invocation that reached it.
NetworkCall(i) == CHOOSE k \in Pos(i.trace, "submitForm") : TRUE

\* The calls of renderErrors with the error list of the response, and the
\* calls of an outcome hook.
ResponseRenders(tr) == {k \in Pos(tr, "renderErrors") : tr[k].ref = "body.errors"}
OutcomeCalls(tr) ==
  Pos(tr, "onSuccess") \cup Pos(tr, "onError") \cup Pos(tr, "onFailure")
  \cup ResponseRenders(tr)

Resolved(i) == i.result.kind = "resolve"
Rejected(i) == i.result.kind = "reject"
SubmitControls == {c \in Controls : IsSubmitType(c) /\ Within(c, "form1")}

\* C1: in every invocation of submit that got an outcome (status 200, another
\* status, or a rejection) the disable hook was called before
\* client.submitForm, the outcome hook of the branch ran, and the enable hook
\* was called after it; with the default enable hook an invocation that did
\* not overlap another ends with the submit controls of the form enabled.
C1_DisabledBeforeCallEnabledAfter ==
  \A i \in ReachedExits :
    /\ \E k \in Pos(i.trace, "disable") :
         k < NetworkCall(i) /\ i.trace[k].impl = i.config.hooks["disable"]
    /\ Rejected(i) => Pos(i.trace, "onFailure") # {}
    /\ (Resolved(i) /\ i.result.status = 200) => Pos(i.trace, "onSuccess") # {}
    /\ (Resolved(i) /\ i.result.status # 200) => ResponseRenders(i.trace) # {}
    /\ \E k \in Pos(i.trace, "enable") :
         /\ k > NetworkCall(i)
         /\ i.trace[k].impl = i.config.hooks["enable"]
         /\ \A j \in OutcomeCalls(i.trace) : j < k
    /\ (i.config.hooks["enable"] = "default" /\ ~i.overlapped)
         => \A c \in SubmitControls : ~dom.disabled[c]

\* A validation failure of an invocation with the default hooks that found
\* the submit button disabled when the response arrived and left it enabled.
C1_Witness ==
  \E i \in ReachedExits :
    /\ Resolved(i) /\ i.result.status # 200 /\ ~i.overlapped
    /\ i.config.hooks["enable"] = "default" /\ i.config.hooks["disable"] = "default"
    /\ i.pre.disabled["submit"] /\ ~dom.disabled["submit"]

\* C2: whenever client.submitForm rejects, the failure hook the configuration
\* holds (the onFailure option given to init, or the default) is called
\* exactly once in that invocation, with the error of the rejection.
C2_ConfiguredFailureHookCalled ==
  \A i \in Exits :
    Rejected(i) =>
      Cardinality({k \in Pos(i.trace, "onFailure") :
                     /\ i.trace[k].impl = i.config.hooks["onFailure"]
                     /\ i.trace[k].ref = i.result.e}) = 1

\* C3: for a response whose status is not 200 and whose body.errors is a list,
\* renderErrors is called exactly once with that list; when that call returns,
\* onError is called exactly once, right after it, with the same list; and
\* when both return, neither onSuccess nor onFailure is called.
C3_RenderThenOnError ==
  \A i \in Exits :
    (Resolved(i) /\ i.result.status # 200 /\ i.result.hasErrors) =>
      /\ Cardinality(ResponseRenders(i.trace)) = 1
      /\ \A r \in ResponseRenders(i.trace) :
           /\ i.trace[r].errs = i.result.errors
           /\ i.trace[r].impl = i.config.hooks["renderErrors"]
           /\ i.trace[r].threw => Pos(i.trace, "onError") = {}
           /\ ~i.trace[r].threw =>
                /\ Pos(i.trace, "onError") = {r + 1}
                /\ i.trace[r + 1].ref = "body.errors"
                /\ i.trace[r + 1].errs = i.result.errors
                /\ i.trace[r + 1].impl = i.config.hooks["onError"]
                /\ ~i.trace[r + 1].threw =>
                     Pos(i.trace, "onSuccess") \cup Pos(i.trace, "onFailure") = {}

\* A validation failure with a non-empty error list whose two calls returned.
C3_Witness ==
  \E i \in Exits :
    /\ Resolved(i) /\ i.result.status # 200 /\ i.result.hasErrors
    /\ Len(i.result.errors) > 0
    /\ \E r \in ResponseRenders(i.trace) :
         /\ ~i.trace[r].threw
         /\ Pos(i.trace, "onError") = {r + 1}
         /\ ~i.trace[r + 1].threw

\* C4: the enabling step runs on every exit of submit, also when submit exits
\* by an exception of its first lines (a computed data function,
\* renderErrors(config, []), disable, onSubmit), so that no exit leaves the
\* submit controls disabled: every invocation that has ended after calling
\* the disable hook has called the enable hook after it.
C4_EnableOnEveryExit ==
  \A i \in Exits :
    \A k \in Pos(i.trace, "disable") : \E j \in Pos(i.trace, "enable") : j > k

\* C5: every invocation that reached the network call has called the enable
\* hook exactly once when it ends, also when onSuccess, renderErrors or
\* onError threw.
C5_EnableExactlyOnce ==
  \A i \in ReachedExits :
    /\ Cardinality(Pos(i.trace, "enable")) = 1
    /\ \A k \in Pos(i.trace, "enable") :
         i.trace[k].impl = i.config.hooks["enable"] /\ k = Len(i.trace)

\* An invocation one of whose outcome hooks threw, and which called enable.
C5_Witness ==
  \E i \in ReachedExits :
    /\ \E k \in OutcomeCalls(i.trace) : i.trace[k].threw
    /\ Cardinality(Pos(i.trace, "enable")) = 1

SuccessPath(i) == Pos(i.trace, "onSuccess") # {}
ValidationPath(i) == ResponseRenders(i.trace) \cup Pos(i.trace, "onError") # {}
FailurePath(i) == Pos(i.trace, "onFailure") # {}

\* C6 as stated: an invocation that reached the network call takes at most one
\* of the three outcome paths (success hook / error rendering and
\* validation-error hook / failure hook), whatever the hooks do.
C6_AtMostOneOutcomePath ==
  \A i \in ReachedExits :
    Cardinality({p \in {"success", "validation", "failure"} :
                   \/ p = "success" /\ SuccessPath(i)
                   \/ p = "validation" /\ ValidationPath(i)
                   \/ p = "failure" /\ FailurePath(i)}) <= 1

\* C6 as amended: an invocation that reached the network call takes exactly
\* one of the success path (status 200) and the validation path (another
\* status) when the call resolved and neither when it rejected; the failure
\* hook runs at most once, and it runs exactly when the call rejected or a
\* call of the path taken threw.
C6_OutcomePaths ==
  \A i \in ReachedExits :
    /\ (Resolved(i) /\ i.result.status = 200) => SuccessPath(i) /\ ~ValidationPath(i)
    /\ (Resolved(i) /\ i.result.status # 200) => ValidationPath(i) /\ ~SuccessPath(i)
    /\ Rejected(i) => ~SuccessPath(i) /\ ~ValidationPath(i)
    /\ Cardinality(Pos(i.trace, "onFailure")) <= 1
    /\ FailurePath(i) <=>
         \/ Rejected(i)
         \/ \E k \in OutcomeCalls(i.trace) \ Pos(i.trace, "onFailure") : i.trace[k].threw

\* A response with status 200 whose success hook threw: the failure hook ran
\* in the same invocation.
C6_Witness ==
  \E i \in ReachedExits :
    /\ Resolved(i) /\ i.result.status = 200
    /\ \E k \in Pos(i.trace, "onSuccess") : i.trace[k].threw
    /\ FailurePath(i)

AllEmpty(slots) == \A f \in Slots : slots[f] = Empty
DefaultUI(i) ==
  i.config.hooks["renderErrors"] = "default" /\ i.config.hooks["enable"] = "default"

\* C7 as stated, for an invocation with the default renderer and enable hook
\* that overlapped no other: when the network call rejects, the content of
\* every error slot at the end of the invocation equals its content at the
\* start, and the submit controls end enabled.
C7_NoSlotChangeOnRejection ==
  \A i \in Exits :
    (Rejected(i) /\ DefaultUI(i) /\ ~i.overlapped) =>
      /\ i.end.slots = i.start
      /\ \A c \in SubmitControls : ~dom.disabled[c]

\* C7 as amended: when the network call rejects, no slot content changes from
\* the rejection to the end of the invocation; with the default renderer an
\* invocation that overlapped no other ends with every error slot empty (its
\* first step cleared what an earlier submission had rendered); and with the
\* default enable hook the submit controls end enabled.
C7_RejectionLeavesSlotsCleared ==
  \A i \in Exits :
    Rejected(i) =>
      /\ i.end.slots = i.pre.slots /\ dom.slots = i.end.slots
      /\ (i.config.hooks["renderErrors"] = "default" /\ ~i.overlapped)
           => AllEmpty(dom.slots)
      /\ i.config.hooks["enable"] = "default"
           => \A c \in SubmitControls : ~dom.disabled[c]

\* A rejection in an invocation that began with an error rendered by an
\* earlier submission and ended with the slots empty.
C7_Witness ==
  \E i \in Exits :
    /\ Rejected(i) /\ DefaultUI(i) /\ ~i.overlapped
    /\ ~AllEmpty(i.start) /\ AllEmpty(dom.slots)
    /\ ~dom.disabled["submit"]

\* C8: in an invocation whose network call rejected, the only call of
\* renderErrors is the clearing call with the empty list made before
\* client.submitForm was called.
C8_NoRenderAfterRejection ==
  \A i \in Exits :
    Rejected(i) =>
      /\ Cardinality(Pos(i.trace, "renderErrors")) = 1
      /\ \A k \in Pos(i.trace, "renderErrors") :
           i.trace[k].ref = "[]" /\ i.trace[k].errs = <<>> /\ k < NetworkCall(i)

\* A rejection that reached the catch and finally blocks.
C8_Witness ==
  \E i \in Exits :
    /\ Rejected(i)
    /\ Pos(i.trace, "onFailure") # {} /\ Pos(i.trace, "enable") # {}

\* What C9 says of the hooks for a response with status 200: the success hook
\* of the configuration is called exactly once, with the response body, and
\* renderErrors is not called with an error list of the response.
SuccessHookOnce(i) ==
  /\ Cardinality(Pos(i.trace, "onSuccess")) = 1
  /\ \A k \in Pos(i.trace, "onSuccess") :
       i.trace[k].impl = i.config.hooks["onSuccess"] /\ i.trace[k].ref = "body"
  /\ ResponseRenders(i.trace) = {}

\* The form was replaced by a 'Thank you!' element in the second segment of i.
Replaced(i) ==
  i.pre.attached /\ ~i.end.attached /\ i.end.thanks = i.pre.thanks + 1

\* C9 as stated: for every response with status 200 the success hook is called
\* exactly once with the response body and renderErrors is not called with a
\* response error list; the default success hook replaces the form in its
\* parent node by a 'Thank you!' element.
C9_SuccessReplacesForm ==
  \A i \in Exits :
    (Resolved(i) /\ i.result.status = 200) =>
      /\ SuccessHookOnce(i)
      /\ i.config.hooks["onSuccess"] = "default" => Replaced(i)

\* C9 as amended: the default success hook replaces the form when the form is
\* in the document as the response arrives; for a form that is not (an earlier
\* success replaced it) the hook throws and the form stays out of the document.
C9_SuccessReplacesAttachedForm ==
  \A i \in Exits :
    (Resolved(i) /\ i.result.status = 200) =>
      /\ SuccessHookOnce(i)
      /\ i.config.hooks["onSuccess"] = "default" =>
           /\ ~dom.attached
           /\ \A k \in Pos(i.trace, "onSuccess") :
                IF i.pre.attached
                THEN Replaced(i) /\ ~i.trace[k].threw
                ELSE i.end.thanks = i.pre.thanks /\ i.trace[k].threw

\* A response with status 200 for which the default hook replaced the form.
C9_Witness ==
  \E i \in Exits :
    /\ Resolved(i) /\ i.result.status = 200
    /\ i.config.hooks["onSuccess"] = "default"
    /\ Replaced(i) /\ dom.thanks = 1

\* The element option names no element of the document.
ResolvesToNothing(element) ==
  element = "#nothing" \/ (element = "#form1" /\ ~dom.attached)

\* C10: a call of init with a missing id, a missing element or a selector that
\* resolves to no element throws, and it has attached no listener and called
\* neither the enable hook nor the init hook.
C10_BadPropsThrowBeforeBinding ==
  (lastInit.called
     /\ (lastInit.id = "" \/ lastInit.element = "" \/ ResolvesToNothing(lastInit.element)))
    => /\ lastInit.exc # None
       /\ ~lastInit.ret
       /\ Len(listeners) = lastInit.before
       /\ lastInit.trace = <<>>

\* A call of init with a selector that resolves to nothing, made after a
\* successful call had attached a listener.
C10_Witness ==
  /\ lastInit.called /\ lastInit.id = "f1" /\ lastInit.element = "#nothing"
  /\ lastInit.exc # None
  /\ Len(listeners) = 1

\* What a call of init that returned has done: it attached one listener, to
\* the element the configuration holds, then called the enable hook of the
\* configuration, then its init hook, each once and nothing else, and it
\* returned true.
BoundOnce(call, ls) ==
  /\ call.exc = None
  /\ Len(ls) = call.before + 1
  /\ Len(call.trace) = 3
  /\ call.trace[1].op = "addEventListener"
  /\ call.trace[1].ref = ls[Len(ls)].form
  /\ call.trace[2].op = "enable"
  /\ call.trace[2].impl = ls[Len(ls)].hooks["enable"]
  /\ call.trace[3].op = "onInit"
  /\ call.trace[3].impl = ls[Len(ls)].hooks["onInit"]
  /\ \A k \in 1..3 : ~call.trace[k].threw
  /\ ls[Len(ls)].id = call.id

\* C11: a call of init that returns true has attached exactly one submit
\* listener to the resolved form, then called the enable hook, then the init
\* hook, in this order and each exactly once; no invocation of submit started
\* or ended and client.submitForm was not called during the call.
C11_InitBindsOnceInOrder ==
  [][(lastInit'.called /\ lastInit'.ret) =>
       /\ BoundOnce(lastInit', listeners')
       /\ SubSeq(listeners', 1, Len(listeners)) = listeners
       /\ started' = started /\ pending' = pending /\ exited' = <<>>
       /\ Pos(lastInit'.trace, "submitForm") = {}]_vars

\* A second call of init on form1 returned true while an invocation of submit
\* of the first listener was suspended at the network call.
C11_Witness ==
  /\ lastInit.called /\ lastInit.ret
  /\ Len(listeners) = 2 /\ listeners[2].form = "form1"
  /\ Len(pending) = 1

SubmitControlsDisabled(d) == \A c \in SubmitControls : d.disabled[c]
DefaultDisable(invs) ==
  \A k \in 1..Len(invs) : invs[k].config.hooks["disable"] = "default"

\* C12 as stated, in the case most favourable to it (one call of init, the
\* default disable hook): whenever at least one invocation of submit on the
\* form is suspended at the network call, the submit controls of the form are
\* disabled, also when invocations overlap.
C12_DisabledWhileSuspended ==
  (pending # <<>> /\ DefaultDisable(pending) /\ nInit = 1)
    => SubmitControlsDisabled(dom)

\* C12 as amended: with the default disable hook the submit controls of the
\* form are disabled when an invocation of submit suspends at the network
\* call, and while an invocation is suspended they stay disabled in every step
\* that is neither the settlement of an invocation on the form nor a call of
\* init.
C12_DisabledUntilEnableRuns ==
  [][/\ (dispatched' # dispatched /\ Len(pending') > Len(pending)
           /\ pending'[Len(pending')].config.hooks["disable"] = "default")
          => SubmitControlsDisabled(dom')
     /\ (pending # <<>> /\ SubmitControlsDisabled(dom)
           /\ nInit' = nInit /\ Len(pending') >= Len(pending))
          => SubmitControlsDisabled(dom')]_vars

\* Two overlapping invocations with the default disable hook are suspended
\* and the submit controls are disabled.
C12_Witness ==
  /\ Len(pending) = 2 /\ DefaultDisable(pending)
  /\ pending[1].overlapped /\ pending[2].overlapped
  /\ SubmitControlsDisabled(dom)

\* C13: each submit event dispatched on a bound form calls preventDefault and
\* starts exactly one invocation of submit, whatever calls of init and submit
\* events came before: the invocations started are as many as the events
\* dispatched, and every event was prevented.
C13_OneLifecyclePerEvent ==
  started = dispatched /\ (dispatched > 0 => prevented >= dispatched)

\* The invocations of submit suspended at the network call.
Suspended == {pending[k] : k \in 1..Len(pending)}

\* The calls submit makes up to client.submitForm, in the order of lines
\* 106-128 (a computed data property is called first).
PreNetwork(config) ==
  (IF config.data = "fn" THEN <<"data">> ELSE <<>>)
    \o <<"renderErrors", "disable", "onSubmit", "submitForm">>

\* C14: the calls of an invocation of submit begin with renderErrors(config,
\* []), the disable hook, the onSubmit hook and client.submitForm with the id
\* of the configuration, in this order and each once (after the call of a
\* computed data property, if there is one), the sequence ending early only
\* where a call threw; every call of onSuccess, onError or onFailure and every
\* renderErrors call with a list of the response comes after the call of
\* client.submitForm.
C14_PreNetworkOrder ==
  \A i \in Exits \cup Suspended :
    /\ \A k \in 1..Len(i.trace) :
         IF k <= Len(PreNetwork(i.config))
         THEN /\ i.trace[k].op = PreNetwork(i.config)[k]
              /\ i.trace[k].op \in HookNames
                   => i.trace[k].impl = i.config.hooks[i.trace[k].op]
              /\ i.trace[k].op = "renderErrors"
                   => i.trace[k].ref = "[]" /\ i.trace[k].errs = <<>>
              /\ i.trace[k].op = "submitForm" => i.trace[k].ref = i.config.id
              /\ k < Len(i.trace) => ~i.trace[k].threw
         ELSE /\ i.trace[k].op \in {"onSuccess", "renderErrors", "onError",
                                    "onFailure", "enable"}
              /\ i.trace[k].op = "renderErrors" => i.trace[k].ref = "body.errors"
    /\ (0 < Len(i.trace) /\ Len(i.trace) < Len(PreNetwork(i.config)))
         => i.trace[Len(i.trace)].threw
    /\ \A k \in OutcomeCalls(i.trace) : k > Len(PreNetwork(i.config))

\* An invocation with a computed data property made the four calls, was
\* suspended, and called an outcome hook after a response without status 200.
C14_Witness ==
  \E i \in ReachedExits :
    /\ i.config.data = "fn" /\ NetworkCall(i) = 5
    /\ Resolved(i) /\ i.result.status # 200
    /\ Pos(i.trace, "onError") # {}

\* Steps 1-3 of an invocation completed: its call of onSubmit returned.
StepsCompleted(i) == \E k \in Pos(i.trace, "onSubmit") : ~i.trace[k].threw
NetworkCalls(i) == Cardinality(Pos(i.trace, "submitForm"))

\* C15: an invocation of submit whose steps 1-3 complete calls
\* client.submitForm exactly once, whatever the outcome, and an invocation
\* whose steps 1-3 do not complete does not call it; no invocation is dropped
\* or merged with another: in every step each invocation that was suspended
\* or started in the step is suspended afterwards or has ended in the step,
\* its call of client.submitForm made when it started.
C15_OneNetworkCallPerInvocation ==
  [][/\ Len(pending') + Len(exited') = Len(pending) + (started' - started)
     /\ \A k \in 1..Len(pending') :
          StepsCompleted(pending'[k]) /\ NetworkCalls(pending'[k]) = 1
     /\ \A k \in 1..Len(exited') :
          NetworkCalls(exited'[k]) = IF StepsCompleted(exited'[k]) THEN 1 ELSE 0
     /\ \A k \in 1..Len(pending) :
          \/ \E j \in 1..Len(pending') :
               pending'[j].trace = pending[k].trace
          \/ \E j \in 1..Len(exited') :
               /\ Len(exited'[j].trace) > Len(pending[k].trace)
               /\ SubSeq(exited'[j].trace, 1, Len(pending[k].trace)) = pending[k].trace
    ]_vars

\* One of two overlapping invocations ended after a rejection with its one
\* call of client.submitForm while the other is still suspended with its own.
C15_Witness ==
  /\ started = 2 /\ Len(pending) = 1
  /\ \E i \in ReachedExits :
       Rejected(i) /\ i.overlapped /\ NetworkCalls(i) = 1

\* The custom message configured for a field and an error code ("" when there
\* is none), and the display name of a field.
CustomMessage(fields, field, code) ==
  IF field \in DOMAIN fields
       /\ toCamel(toLowerCase(code)) \in DOMAIN fields[field].errorMessages
  THEN fields[field].errorMessages[toCamel(toLowerCase(code))]
  ELSE ""
PrettyName(fields, field) ==
  IF field \in DOMAIN fields /\ fields[field].prettyName # ""
  THEN fields[field].prettyName ELSE "This field"

\* The content the claim gives a slot whose field is that of the error e.
Displayed(fields, e) ==
  IF CustomMessage(fields, e.field, e.code) # ""
  THEN <<CustomMessage(fields, e.field, e.code)>>
  ELSE <<PrettyName(fields, e.field), e.message>>

\* C16: after renderErrors(config, errors) every error slot of the form whose
\* field matches no error of the list is empty, and every slot whose field
\* matches one displays the message of the first such error in the list: the
\* custom message configured for the lower-cased, camel-cased code when there
\* is one (a non-empty string), else "{prettyName} {message}" with "This
\* field" for a field without prettyName.
C16_SlotsShowFirstMatch ==
  lastCall.op = "renderErrors" =>
    \A f \in SlotsWithin(lastCall.form) :
      IF \A k \in 1..Len(lastCall.errors) : lastCall.errors[k].field # f
      THEN dom.slots[f] = Empty
      ELSE \E k \in 1..Len(lastCall.errors) :
             /\ lastCall.errors[k].field = f
             /\ \A j \in 1..(k - 1) : lastCall.errors[j].field # f
             /\ dom.slots[f] = Displayed(options.fields, lastCall.errors[k])

\* A list with two errors of one field and different messages was rendered
\* over a stale text: the email slot shows the custom message of the first,
\* the name slot is empty.
C16_Witness ==
  /\ lastCall.op = "renderErrors" /\ Len(lastCall.errors) = 2
  /\ lastCall.errors[1].field = "email" /\ lastCall.errors[2].field = "email"
  /\ lastCall.errors[1].code # lastCall.errors[2].code
  /\ dom.slots["email"] = <<"Enter a valid address">>
  /\ dom.slots["name"] = Empty

\* C17: a call of renderErrors with the error list of the call before it
\* changes nothing; the slot contents after a call are the same from whatever
\* contents it starts; and a call with the empty list after a call with a
\* non-empty list leaves every error slot of the form empty.
C17_RenderIdempotent ==
  [][lastCall'.op = "renderErrors" =>
       /\ (lastCall.op = "renderErrors" /\ lastCall'.errors = lastCall.errors)
            => dom' = dom
       /\ \A prior \in PriorSlots :
            renderErrors(HookConfig(lastCall'.form), Defined(lastCall'.errors),
                         [dom EXCEPT !.slots = prior]).dom.slots = dom'.slots
       /\ (lastCall.op = "renderErrors" /\ lastCall.errors # <<>>
             /\ lastCall'.errors = <<>>)
            => AllEmpty(dom'.slots)]_vars

\* renderErrors was called twice in a row with the same list of two errors,
\* and a message is displayed.
C17_Witness ==
  /\ lastCall.op = "renderErrors" /\ Len(lastCall.errors) = 2
  /\ lastCall.prev = <<CallOf("renderErrors", "form1", lastCall.errors)>>
  /\ ~AllEmpty(dom.slots)

\* C18: after the default enable every submit-type control within the form is
\* enabled, after the default disable every one is disabled; neither changes
\* the disabled flag of a control that is not of submit type or not within
\* the form, nor anything else of the document; and a call that repeats the
\* call before it changes nothing.
C18_TogglersSetSubmitControls ==
  [][lastCall'.op \in {"enable", "disable"} =>
       /\ \A c \in Controls :
            IF IsSubmitType(c) /\ Within(c, lastCall'.form)
            THEN dom'.disabled[c] = (lastCall'.op = "disable")
            ELSE dom'.disabled[c] = dom.disabled[c]
       /\ dom' = [dom EXCEPT !.disabled = dom'.disabled]
       /\ (lastCall.op = lastCall'.op /\ lastCall.form = lastCall'.form)
            => dom' = dom]_vars

\* disable was called for form1 after enable: its submit button is disabled,
\* while the disabled text input of the form and the enabled submit button
\* outside of it are as they were.
C18_Witness ==
  /\ lastCall.op = "disable" /\ lastCall.form = "form1"
  /\ lastCall.prev = <<CallOf("enable", "form1", <<>>)>>
  /\ dom.disabled["submit"] /\ dom.disabled["text"] /\ ~dom.disabled["outer"]

\* C19: a call of init that returns true has bound a form element, and a call
\* of init with an id and a selector that resolves to an element that is no
\* form throws and attaches no listener.
C19_OnlyFormsAreBound ==
  /\ (lastInit.called /\ lastInit.ret) => IsForm(listeners[Len(listeners)].form)
  /\ (lastInit.called /\ lastInit.id # "" /\ lastInit.element = "#div1")
       => lastInit.exc # None /\ Len(listeners) = lastInit.before

\* The calls of step 5 in a trace that threw.
ThrowingOutcomeCalls(tr) ==
  {k \in OutcomeCalls(tr) \ Pos(tr, "onFailure") : tr[k].threw}

\* C20: an invocation of submit with the default enable hook that had called
\* client.submitForm ends without an exception when the call settles:
\* whenever onSuccess, renderErrors or onError threw (the default onSuccess
\* for a form that is not in the document, the default renderErrors for a
\* body without errors list, or an override), the next call is the failure
\* hook with the exception, which returns, and the last call is enable.
C20_SettledInvocationEndsNormally ==
  \A i \in ReachedExits :
    i.config.hooks["enable"] = "default" =>
      /\ i.pc = "done" /\ i.exc = None
      /\ i.trace[Len(i.trace)].op = "enable" /\ ~i.trace[Len(i.trace)].threw
      /\ \A k \in ThrowingOutcomeCalls(i.trace) :
           /\ k + 2 = Len(i.trace)
           /\ i.trace[k + 1].op = "onFailure" /\ ~i.trace[k + 1].threw
           /\ i.trace[k + 1].ref \in {"TypeError", "HookError"}

\* A response with status 200 arrived for a form that an earlier success had
\* replaced: the default onSuccess threw, the failure hook and enable ran, and
\* the invocation ended without an exception.
C20_Witness ==
  \E i \in ReachedExits :
    /\ Resolved(i) /\ i.result.status = 200
    /\ i.config.hooks["onSuccess"] = "default" /\ i.config.hooks["enable"] = "default"
    /\ ~i.pre.attached
    /\ ThrowingOutcomeCalls(i.trace) # {}
    /\ i.exc = None

====
